---- MODULE Spec2Model ----
(***************************************************************************)
(* A model of src/main.py: the FastAPI relay that keeps one "latest image" *)
(* file, an append-only log file and the process-wide flag                 *)
(* boxe_wants_image, with its background polling thread.                   *)
(*                                                                         *)
(* Threads of the running process:                                         *)
(*   - the event loop, which runs the two `async def` handlers             *)
(*     (/upload, /receive-demand); after their single await they run       *)
(*     without yielding, so at most one of them is in progress;            *)
(*   - a threadpool worker, which runs the `def` handlers (/check,         *)
(*     /get-latest-image, /view-image, /view-logs), each of them one read  *)
(*     of the file system;                                                 *)
(*   - the daemon thread running polling_loop.                             *)
(* The three interleave at the granularity of their file-system calls.     *)
(* Every file-system call may fail (OSError); the failure is an input.     *)
(*                                                                         *)
(* A log line is modelled by its message; the "[timestamp] " prefix that   *)
(* log_event puts in front of it is not modelled, nor is the text of the   *)
(* exception ({e}) that the error lines and error answers end with.        *)
(*                                                                         *)
(* src/main.py lines 147-149 mix a 7-space and an 8-space indentation      *)
(* inside `while True:`; the model takes the evident block structure: the  *)
(* `if` and the `time.sleep` are both the body of the loop.                *)
(***************************************************************************)
EXTENDS Integers, Sequences, FiniteSets, TLC

\* ------------------------------------------------------------ bounds
\* Longest image, in bytes, that a request carries.
MaxLen == 2
\* Longest log file, in lines: a log_event on a file that long fails, as it
\* does on a full disk.
MaxLog == 1

\* The byte values images are made of ('h' and 0xFF).
ByteVals == {104, 255}

\* ------------------------------------------------------------ base64
\* A base64 text is a sequence of characters: 0..63 is a character of the
\* alphabet (its sextet), Pad is '=', Junk is an ASCII character outside
\* the alphabet (such as '!').
Pad == 64
Junk == 65

RECURSIVE b64encode(_)
b64encode(bs) ==
  IF Len(bs) = 0 THEN << >>
  ELSE IF Len(bs) = 1 THEN
    << bs[1] \div 4, (bs[1] % 4) * 16, Pad, Pad >>
  ELSE IF Len(bs) = 2 THEN
    << bs[1] \div 4, (bs[1] % 4) * 16 + bs[2] \div 16, (bs[2] % 16) * 4, Pad >>
  ELSE
    << bs[1] \div 4, (bs[1] % 4) * 16 + bs[2] \div 16,
       (bs[2] % 16) * 4 + bs[3] \div 64, bs[3] % 64 >>
    \o b64encode(SubSeq(bs, 4, Len(bs)))

\* binascii.a2b_base64 in its non-strict mode, which is what
\* base64.b64decode(s) (validate=False) runs: characters outside the
\* alphabet are skipped, a complete pad sequence ends the parse, and a
\* quad left open at the end of the text raises binascii.Error (ok = FALSE).
RECURSIVE a2b_base64(_, _, _, _, _, _)
a2b_base64(s, i, quad, left, pads, out) ==
  IF i > Len(s) THEN
    IF quad = 0 THEN [ok |-> TRUE, bytes |-> out]
    ELSE [ok |-> FALSE, bytes |-> << >>]
  ELSE IF s[i] = Pad THEN
    IF quad >= 2 /\ quad + pads + 1 >= 4
      THEN [ok |-> TRUE, bytes |-> out]
      ELSE a2b_base64(s, i + 1, quad, left,
                      IF quad >= 2 THEN pads + 1 ELSE pads, out)
  ELSE IF s[i] >= 64 THEN a2b_base64(s, i + 1, quad, left, pads, out)
  ELSE IF quad = 0 THEN a2b_base64(s, i + 1, 1, s[i], 0, out)
  ELSE IF quad = 1 THEN
    a2b_base64(s, i + 1, 2, s[i] % 16, 0,
               Append(out, left * 4 + s[i] \div 16))
  ELSE IF quad = 2 THEN
    a2b_base64(s, i + 1, 3, s[i] % 4, 0,
               Append(out, left * 16 + s[i] \div 4))
  ELSE a2b_base64(s, i + 1, 0, 0, 0, Append(out, left * 64 + s[i]))

b64decode(s) == a2b_base64(s, 1, 0, 0, 0, << >>)

\* ------------------------------------------------------------ inputs
\* The images requests carry: up to MaxLen bytes, all of one value.
ByteSeqs == { [i \in 1 .. n |-> b] : n \in 0 .. MaxLen, b \in ByteVals }

\* Texts of an "image" field that are not base64: characters outside the
\* alphabet only ("!!!!"), and a missing pad ("aA").
MalformedImages == { <<Junk, Junk, Junk, Junk>>, <<26, 0>> }

\* The body of a POST /upload: a JSON object with or without the fields
\* "image" and "filename".
UploadBodies ==
  { [hasImage |-> FALSE, image |-> << >>,
     hasFilename |-> FALSE, filename |-> ""] }
  \cup { [hasImage |-> TRUE, image |-> im,
          hasFilename |-> FALSE, filename |-> ""] :
         im \in { b64encode(b) : b \in ByteSeqs } \cup MalformedImages }
  \cup { [hasImage |-> TRUE, image |-> b64encode(<<104>>),
          hasFilename |-> TRUE, filename |-> "x.png"] }

\* The body of a POST /receive-demand.
DemandBodies ==
  { [json |-> FALSE, hasDemand |-> FALSE, demand |-> FALSE],
    [json |-> TRUE, hasDemand |-> FALSE, demand |-> FALSE],
    [json |-> TRUE, hasDemand |-> TRUE, demand |-> FALSE],
    [json |-> TRUE, hasDemand |-> TRUE, demand |-> TRUE] }

\* ------------------------------------------------------------- state
VARIABLES
  file,              \* LATEST_FILE: [exists, data]
  logf,              \* LOG_FILE: [exists, lines]
  boxe_wants_image,  \* the global flag
  ev,                \* the event loop's handler in progress, with its locals
  pollPc,            \* polling_loop: "start", "check", "sleep", "dead"
  resp,              \* the HTTP response the last step sent, if it sent one
  sent,              \* the outbound POSTs to BOXE_UPLOAD_URL, in order
  lastOk,            \* history: the bytes of the last /upload answered "ok"
  uploadMade,        \* history: a POST /upload has been made
  demandMade         \* history: a POST /receive-demand has been made

vars == << file, logf, boxe_wants_image, ev, pollPc, resp, sent,
           lastOk, uploadMade, demandMade >>

hist == << lastOk, uploadMade, demandMade >>

Absent == [exists |-> FALSE, data |-> << >>]
NoLog == [exists |-> FALSE, lines |-> << >>]
\* The locals of the event loop's handler; `old` is history: LATEST_FILE as
\* it was when the store in progress opened it.
EvIdle == [pc |-> "idle", data |-> << >>, rem |-> << >>,
           filename |-> "", old |-> Absent]
NoResp == [op |-> "none", kind |-> "none", msg |-> "",
           data |-> << >>, text |-> << >>, avail |-> FALSE]

Resp(op, kind) == [NoResp EXCEPT !.op = op, !.kind = kind]

Init ==
  /\ file = Absent
  /\ logf = NoLog
  /\ boxe_wants_image = FALSE
  /\ ev = EvIdle
  /\ pollPc = "start"
  /\ resp = NoResp
  /\ sent = << >>
  /\ lastOk = Absent
  /\ uploadMade = FALSE
  /\ demandMade = FALSE

\* ---------------------------------------------------------- log_event
\* What one call log_event(message) can leave in LOG_FILE: the line
\* appended; or, when open(LOG_FILE, "a") raises, the file as it was; or,
\* when the write raises, the file created by the open and no line.
LogWritten(message) ==
  [exists |-> TRUE, lines |-> Append(logf.lines, message)]
LogWriteFailed == [exists |-> TRUE, lines |-> logf.lines]
LogFailures == { logf, LogWriteFailed }
LogRoom == Len(logf.lines) < MaxLog

\* ------------------------------------------------- POST /upload (event loop)
\* Lines 49-53: the body is parsed, data["image"] and the filename are read,
\* the image is decoded and LATEST_FILE is opened with "wb", which creates it
\* or truncates it. Any exception leads to the except branch.
filenameOf(body) == IF body.hasFilename THEN body.filename ELSE "latest.png"

UploadRaise ==
  /\ ev' = [EvIdle EXCEPT !.pc = "up_except"]
  /\ file' = file

UploadOpen(body, bytes) ==
  \/ /\ file' = [exists |-> TRUE, data |-> << >>]
     /\ ev' = [pc |-> IF bytes = << >> THEN "up_log" ELSE "up_write",
               data |-> bytes, rem |-> bytes,
               filename |-> filenameOf(body), old |-> file]
  \/ UploadRaise

UploadBegin(body) ==
  /\ ev.pc = "idle"
  /\ uploadMade' = TRUE
  /\ IF ~body.hasImage THEN UploadRaise
     ELSE LET d == b64decode(body.image)
          IN  IF d.ok THEN UploadOpen(body, d.bytes) ELSE UploadRaise
  /\ resp' = NoResp
  /\ UNCHANGED << logf, boxe_wants_image, pollPc, sent,
                  lastOk, demandMade >>

\* Line 54 and the close of the `with`: the bytes reach the file in one or
\* more writes, each of which may raise and leave the file short.
UploadWrite ==
  /\ ev.pc = "up_write"
  /\ \/ \E k \in 1 .. Len(ev.rem) :
          /\ file' = [file EXCEPT !.data = file.data \o SubSeq(ev.rem, 1, k)]
          /\ ev' = [ev EXCEPT !.rem = SubSeq(ev.rem, k + 1, Len(ev.rem)),
                              !.pc = IF k = Len(ev.rem) THEN "up_log"
                                     ELSE "up_write"]
     \/ /\ ev' = [EvIdle EXCEPT !.pc = "up_except"]
        /\ file' = file
  /\ resp' = NoResp
  /\ UNCHANGED << logf, boxe_wants_image, pollPc, sent, hist >>

\* Lines 55-56: the success line is logged and the acknowledgement returned;
\* a log_event that raises leads to the except branch.
UploadLog ==
  /\ ev.pc = "up_log"
  /\ \/ /\ LogRoom
        /\ logf' = LogWritten(<<"Image received and saved: ", ev.filename>>)
        /\ resp' = [Resp("upload", "ok") EXCEPT
                      !.msg = "Image successfully received"]
        /\ lastOk' = [exists |-> TRUE, data |-> ev.data]
        /\ ev' = EvIdle
     \/ /\ logf' \in LogFailures
        /\ ev' = [EvIdle EXCEPT !.pc = "up_except"]
        /\ resp' = NoResp
        /\ lastOk' = lastOk
  /\ UNCHANGED << file, boxe_wants_image, pollPc, sent,
                  uploadMade, demandMade >>

\* Lines 57-59: the error is logged and a structured error returned; a
\* log_event that raises here leaves the handler as an unhandled exception.
UploadExcept ==
  /\ ev.pc = "up_except"
  /\ \/ /\ LogRoom
        /\ logf' = LogWritten(<<"Error during upload: ", "">>)
        /\ resp' = Resp("upload", "error")
     \/ /\ logf' \in LogFailures
        /\ resp' = Resp("upload", "unhandled")
  /\ ev' = EvIdle
  /\ UNCHANGED << file, boxe_wants_image, pollPc, sent, hist >>

\* ----------------------------------------- POST /receive-demand (event loop)
\* Lines 121-122: the body is parsed and the flag is set to its "demand"
\* field, False when the field is absent.
demandOf(body) == IF body.hasDemand THEN body.demand ELSE FALSE

ReceiveDemandBegin(body) ==
  /\ ev.pc = "idle"
  /\ demandMade' = TRUE
  /\ IF body.json
       THEN /\ boxe_wants_image' = demandOf(body)
            /\ ev' = [EvIdle EXCEPT !.pc = "rd_log"]
       ELSE /\ boxe_wants_image' = boxe_wants_image
            /\ ev' = [EvIdle EXCEPT !.pc = "rd_except"]
  /\ resp' = NoResp
  /\ UNCHANGED << file, logf, pollPc, sent, lastOk, uploadMade >>

\* Line 123.
ReceiveDemandLog ==
  /\ ev.pc = "rd_log"
  /\ \/ /\ LogRoom
        /\ logf' = LogWritten(<<"Box-E demand received: ",
                                IF boxe_wants_image THEN "YES" ELSE "NO">>)
        /\ ev' = [ev EXCEPT !.pc = "rd_get"]
     \/ /\ logf' \in LogFailures
        /\ ev' = [ev EXCEPT !.pc = "rd_except"]
  /\ resp' = NoResp
  /\ UNCHANGED << file, boxe_wants_image, pollPc, sent, hist >>

\* Lines 124-125: get_latest_image() is called in place and its result
\* returned; LATEST_FILE cannot change under it, since only the event loop
\* writes it. A read that raises leads to the except branch.
ReceiveDemandGet ==
  /\ ev.pc = "rd_get"
  /\ \/ /\ ~file.exists
        /\ resp' = [Resp("receive-demand", "imgResult-404") EXCEPT
                      !.msg = "No image available"]
        /\ ev' = EvIdle
     \/ /\ file.exists
        /\ resp' = [Resp("receive-demand", "imgResult-ok") EXCEPT
                      !.data = b64encode(file.data)]
        /\ ev' = EvIdle
     \/ /\ file.exists
        /\ resp' = NoResp
        /\ ev' = [ev EXCEPT !.pc = "rd_except"]
  /\ UNCHANGED << file, logf, boxe_wants_image, pollPc, sent, hist >>

\* Lines 126-128.
ReceiveDemandExcept ==
  /\ ev.pc = "rd_except"
  /\ \/ /\ LogRoom
        /\ logf' = LogWritten(<<"Error in /receive-demand: ", "">>)
        /\ resp' = Resp("receive-demand", "error")
     \/ /\ logf' \in LogFailures
        /\ resp' = Resp("receive-demand", "unhandled")
  /\ ev' = EvIdle
  /\ UNCHANGED << file, boxe_wants_image, pollPc, sent, hist >>

\* ------------------------------------------------ GET handlers (threadpool)
rdFrame == << file, logf, boxe_wants_image, ev, pollPc, sent, hist >>

\* GET /check, lines 67-70.
Status ==
  /\ resp' = [Resp("check", "running") EXCEPT !.avail = file.exists]
  /\ UNCHANGED rdFrame

\* GetLatestImage as it would be if the not-found branch logged the miss.
GetLatestImageLogsMiss ==
  /\ IF file.exists
       THEN /\ \/ resp' = [Resp("get-latest-image", "ok") EXCEPT
                             !.msg = "latest.png",
                             !.data = b64encode(file.data)]
               \/ resp' = Resp("get-latest-image", "unhandled")
            /\ logf' = logf
       ELSE /\ resp' = [Resp("get-latest-image", "404") EXCEPT
                          !.msg = "No image available"]
            /\ logf' = LogWritten(<<"No image available", "">>)
  /\ UNCHANGED << file, boxe_wants_image, ev, pollPc, sent, hist >>

\* GET /get-latest-image, lines 78-88. The existence test and the read are
\* one step: LATEST_FILE is never removed, so a read that follows a passed
\* test sees what a test and read made together at the later moment see.
\* Nothing catches a read that raises.
GetLatestImage ==
  /\ IF file.exists
       THEN \/ resp' = [Resp("get-latest-image", "ok") EXCEPT
                          !.msg = "latest.png",
                          !.data = b64encode(file.data)]
            \/ resp' = Resp("get-latest-image", "unhandled")
       ELSE resp' = [Resp("get-latest-image", "404") EXCEPT
                       !.msg = "No image available"]
  /\ UNCHANGED rdFrame

\* GET /view-image, lines 96-98; FileResponse reads the file when the
\* response is sent.
ViewImage ==
  /\ IF file.exists
       THEN \/ resp' = [Resp("view-image", "image/png") EXCEPT
                          !.data = file.data]
            \/ resp' = Resp("view-image", "unhandled")
       ELSE resp' = [Resp("view-image", "404") EXCEPT
                       !.msg = "No image available"]
  /\ UNCHANGED rdFrame

\* ViewLogs as it would be if a missing log file were answered with an
\* empty text instead of the placeholder.
ViewLogsNoPlaceholder ==
  /\ IF logf.exists
       THEN \/ resp' = [Resp("view-logs", "text") EXCEPT !.text = logf.lines]
            \/ resp' = Resp("view-logs", "unhandled")
       ELSE resp' = Resp("view-logs", "text")
  /\ UNCHANGED rdFrame

\* GET /view-logs, lines 106-110.
ViewLogs ==
  /\ IF logf.exists
       THEN \/ resp' = [Resp("view-logs", "text") EXCEPT !.text = logf.lines]
            \/ resp' = Resp("view-logs", "unhandled")
       ELSE resp' = [Resp("view-logs", "text") EXCEPT
                       !.msg = "No logs available."]
  /\ UNCHANGED rdFrame

\* ------------------------------------------------- polling_loop (thread)
pollFrame == << file, boxe_wants_image, ev, sent, hist >>

\* Line 145; nothing catches a log_event that raises, which ends the thread.
PollStart ==
  /\ pollPc = "start"
  /\ \/ /\ LogRoom
        /\ logf' = LogWritten(<<"Polling loop started.", "">>)
        /\ pollPc' = "check"
     \/ /\ logf' \in LogFailures
        /\ pollPc' = "dead"
  /\ resp' = NoResp
  /\ UNCHANGED pollFrame

check_demand_from_boxe == boxe_wants_image

\* PollTick as it would be if the loop cleared the demand it has seen.
PollTickClearsDemand ==
  /\ pollPc = "check"
  /\ IF check_demand_from_boxe = FALSE
       THEN \/ /\ LogRoom
               /\ logf' = LogWritten(<<"Box-E is not requesting an image.", "">>)
               /\ pollPc' = "sleep"
            \/ /\ logf' \in LogFailures
               /\ pollPc' = "dead"
       ELSE /\ logf' = logf
            /\ pollPc' = "sleep"
  /\ boxe_wants_image' = FALSE
  /\ resp' = NoResp
  /\ UNCHANGED << file, ev, sent, hist >>

\* Lines 147-148: one tick, up to its sleep. No branch of it posts to
\* BOXE_UPLOAD_URL.
PollTick ==
  /\ pollPc = "check"
  /\ IF check_demand_from_boxe = FALSE
       THEN \/ /\ LogRoom
               /\ logf' = LogWritten(<<"Box-E is not requesting an image.", "">>)
               /\ pollPc' = "sleep"
            \/ /\ logf' \in LogFailures
               /\ pollPc' = "dead"
       ELSE /\ logf' = logf
            /\ pollPc' = "sleep"
  /\ resp' = NoResp
  /\ UNCHANGED pollFrame

\* Line 149: time.sleep(CHECK_INTERVAL), then the next turn of the loop.
PollSleep ==
  /\ pollPc = "sleep"
  /\ pollPc' = "check"
  /\ resp' = NoResp
  /\ UNCHANGED << logf, pollFrame >>

\* ------------------------------------------------------ specification
Next ==
  \/ \E body \in UploadBodies : UploadBegin(body)
  \/ UploadWrite
  \/ UploadLog
  \/ UploadExcept
  \/ \E body \in DemandBodies : ReceiveDemandBegin(body)
  \/ ReceiveDemandLog
  \/ ReceiveDemandGet
  \/ ReceiveDemandExcept
  \/ Status
  \/ GetLatestImage
  \/ ViewImage
  \/ ViewLogs
  \/ PollStart
  \/ PollTick
  \/ PollSleep

Spec == Init /\ [][Next]_vars

\* ============================================================== claims
uploadInFlight == ev.pc \in {"up_write", "up_log", "up_except"}

\* The bytes an answer of /get-latest-image or /view-image carries.
imageOf(r) ==
  IF r.op = "get-latest-image" THEN b64decode(r.data).bytes ELSE r.data

isImageAnswer(r) ==
  \/ r.op = "get-latest-image" /\ r.kind = "ok"
  \/ r.op = "view-image" /\ r.kind = "image/png"

\* C1: a read of the slot that runs while a store is writing it sees the
\* whole previous content or the whole new content, never an empty, short or
\* mixed one.
C1_ReadSeesWholeContent ==
  (isImageAnswer(resp) /\ ev.pc = "up_write")
    => \/ ev.old.exists /\ imageOf(resp) = ev.old.data
       \/ imageOf(resp) = ev.data

\* C2: with no upload in progress, /get-latest-image answers not-found when
\* no upload has been answered "ok", and otherwise answers the bytes of the
\* last upload answered "ok".
C2_LatestIsLastSuccessfulUpload ==
  (resp.op = "get-latest-image" /\ resp.kind \in {"404", "ok"}
     /\ ~uploadInFlight)
    => IF lastOk.exists
         THEN resp.kind = "ok" /\ b64decode(resp.data).ok
              /\ b64decode(resp.data).bytes = lastOk.data
         ELSE resp.kind = "404"

\* C3: a tick of the loop posts the slot's bytes to the peer exactly once
\* when the flag is true and the slot holds an image, and posts nothing when
\* the flag is false.
C3_TickDelivers ==
  [][PollTick =>
       IF boxe_wants_image
         THEN file.exists =>
                /\ Len(sent') = Len(sent) + 1
                /\ b64decode(sent'[Len(sent')].image).bytes = file.data
         ELSE sent' = sent]_vars

\* A text that is base64 (RFC 4648): characters of the alphabet in groups of
\* four, the last group ending in at most two pads.
IsBase64(s) ==
  /\ Len(s) % 4 = 0
  /\ \A i \in 1 .. Len(s) :
       \/ s[i] \in 0 .. 63
       \/ /\ s[i] = Pad
          /\ i >= Len(s) - 1
          /\ s[Len(s)] = Pad

\* C4: an upload whose image is not base64 goes to the error answer and
\* leaves the slot as it was.
C4_BadBase64LeavesSlot ==
  [][\A body \in UploadBodies :
       (UploadBegin(body) /\ body.hasImage /\ ~IsBase64(body.image))
         => (file' = file /\ ev'.pc = "up_except")]_vars

\* C5: no handler ends in an unhandled exception; every failure inside it
\* becomes a structured error answer.
C5_NoUnhandledFault == resp.kind # "unhandled"

\* C6: the polling loop never stops, whatever is raised inside a tick.
C6_LoopNeverStops == pollPc # "dead"

\* C7: with no upload in progress, /check reports an image exactly when some
\* upload has been answered "ok".
C7_AvailableIffUploadSucceeded ==
  (resp.op = "check" /\ ~uploadInFlight) => (resp.avail = lastOk.exists)

\* C8: the flag is written by /receive-demand alone, which sets it to the
\* body's "demand" (false when absent); every other step, the loop's tick
\* included, leaves it as it is.
C8_FlagWrittenByReceiveDemandOnly ==
  [][/\ (ev.pc = "idle" /\ ev'.pc = "rd_log")
          => \A body \in DemandBodies :
               (body.json /\ ReceiveDemandBegin(body))
                 => boxe_wants_image' =
                      (IF body.hasDemand THEN body.demand ELSE FALSE)
     /\ boxe_wants_image' # boxe_wants_image
          => \E body \in DemandBodies : body.json /\ ReceiveDemandBegin(body)
    ]_vars

\* C8: the flag has been raised by /receive-demand and is still up with the
\* request over, an upload made and a tick of the loop just run.
C8_Witness ==
  /\ boxe_wants_image
  /\ demandMade
  /\ ev.pc = "idle"
  /\ pollPc = "sleep"
  /\ uploadMade

isPlaceholder(r) ==
  r.kind = "text" /\ r.msg = "No logs available." /\ r.text = << >>

C10_QueriesReadOnly ==
  [][resp'.op \in {"check", "get-latest-image", "view-image", "view-logs"}
       => UNCHANGED << file, boxe_wants_image, logf >>]_vars

\* C10: a not-found answer with the log still unwritten.
C10_Witness ==
  /\ resp.op = "get-latest-image"
  /\ resp.kind = "404"
  /\ ~file.exists
  /\ ~logf.exists

====
